---- MODULE Spec2Model ----
(***************************************************************************)
(* A model of src/vm/wasmtime.c, the wasmtime back end of the nginx wasm   *)
(* module: engine init/cleanup, plugin load with its rollback chain,       *)
(* plugin unload and the export call dispatcher.                           *)
(*                                                                         *)
(* Every object handed out by the VM library or by ngx_alloc is a heap     *)
(* cell <<n, kind>>, n the number of the load attempt that created it.     *)
(* made[o] says the cell was created, frees[o] counts how often it was     *)
(* released; a cell is live when it was made and never released.           *)
(***************************************************************************)
EXTENDS Integers, Sequences, FiniteSets, TLC

\* ---------------------------------------------------------------- bounds
MaxLoads == 2          \* load attempts in one behaviour
MaxCalls == 2          \* calls started in one behaviour
MaxInits == 1          \* ngx_wasm_wasmtime_init calls in one behaviour
MaxCleanups == 2       \* ngx_wasm_wasmtime_cleanup calls in one behaviour

\* ------------------------------------------------------- program constants
NGX_OK == 0
NGX_ERROR == -1
NGX_DECLINED == -5
NGX_WASM_PARAM_VOID == 1
NGX_WASM_PARAM_I32_I32 == 2
UnknownParamType == 3  \* a tag that is neither of the two shapes

\* ---------------------------------------------------------------- values
Attempts == 1..MaxLoads
Kinds == {"module", "store", "config", "linker", "plugin"}
Objs == Attempts \X Kinds

NULL == <<0, "NULL">>
WILD == <<0, "WILD">>      \* a non-NULL pointer to no object
UNINIT == <<0, "UNINIT">>  \* a local or a field never written
ERR == <<0, "error">>      \* a wasmtime_error_t
TRAP == <<0, "trap">>      \* a wasm_trap_t

Obj(n, k) == <<n, k>>

\* int32_t arithmetic (the i32 of WASMTIME_I32): sums wrap around
I32Max == 2147483647
I32Min == (-I32Max) - 1
AddI32(a, b) ==
    IF a > 0 /\ b > 0 /\ a > I32Max - b
    THEN I32Min + ((a - (I32Max - b)) - 1)
    ELSE IF a < 0 /\ b < 0 /\ a < I32Min - b
    THEN I32Max - (((I32Min - b) - a) - 1)
    ELSE a + b

\* ------------------------------------------------------------ environment
\* The bytecode buffers handed to load: one that does not compile, one
\* module importing env.proxy_log, one whose start function traps.
Bytecodes == {"bad", "guest", "trapstart"}
Valid(bc) == bc # "bad"
Imports(bc) == IF bc = "guest" THEN {"proxy_log"} ELSE {}
StartTraps(bc) == bc = "trapstart"

\* The host API tables the embedding server may supply, each ended by the
\* entry with the empty name.
Registries ==
    { <<"proxy_log", "proxy_get", "">>,
      <<"proxy_log", "proxy_log", "proxy_get", "">>,
      <<"proxy_get", "">> }

\* Exports of a compiled guest module: parameter count, result kind, body.
ExportNames == {"add", "nop", "boom", "wide"}
CallNames == ExportNames \cup {"on_request"}
Exports(bc) == IF bc \in {"guest", "trapstart"} THEN ExportNames ELSE {}
NParams(fn) == IF fn = "add" THEN 2 ELSE 0
ResultKind(fn) ==
    CASE fn = "add" -> "i32"
      [] fn = "wide" -> "i64"
      [] OTHER -> "none"
NResults(fn) == IF ResultKind(fn) = "none" THEN 0 ELSE 1

\* The argument pairs callers pass with the two-int32 shape.
ArgPairs == {<<2, 3>>, <<-1, 0>>}
NoArgs == <<0, 0>>
Threads == {"t1", "t2"}

VARIABLES
    vm_engine,      \* the static engine pointer: NULL or <<n, "engine">>
    eng_made,       \* engines created so far
    eng_frees,      \* engine n -> how often it was destroyed
    init_rc,        \* what the last ngx_wasm_wasmtime_init returned
    ninits, ncleanups,
    host_apis,      \* the host API table
    faulty,         \* the allocator and the VM library may fail in this run
    made, frees,    \* the heap
    mod_code,       \* module attempt -> the bytecode it was compiled from
    wasi_of,        \* store attempt -> the config its context owns, or NULL
    plugins,        \* plugin attempt -> the fields of the Plugin record
    handles,        \* plugin cells returned by load and not yet unloaded
    nloads,         \* load attempts started
    load,           \* the frame of ngx_wasm_wasmtime_load
    call,           \* thread -> its frame of ngx_wasm_wasmtime_call
    param_int32_int32,  \* the static argument slots, their of.i32 members
    ncalls,         \* calls started
    crashed         \* the process died on a wild or dangling pointer

engine_vars == <<vm_engine, eng_made, eng_frees, init_rc, ninits, ncleanups>>
heap_vars == <<made, frees, mod_code, wasi_of>>
call_vars == <<call, param_int32_int32, ncalls>>
env_vars == <<host_apis, faulty>>
vars == <<engine_vars, env_vars, heap_vars, plugins, handles, nloads, load,
          call_vars, crashed>>

Live(o) == o \in Objs /\ made[o] /\ frees[o] = 0
LiveOf(k) == {o \in Objs : o[2] = k /\ Live(o)}
Counters == [k \in Kinds |-> Cardinality(LiveOf(k))]

\* Whether a fallible allocation or library call succeeds
Outcomes == IF faulty THEN BOOLEAN ELSE {TRUE}

EngineLive == vm_engine # NULL /\ eng_frees[vm_engine[1]] = 0

\* ------------------------------------------------------------ the library
\* wasmtime_*_delete / wasi_config_delete / ngx_free: one release of p.
Delete(fr, p) == IF p \in Objs THEN [fr EXCEPT ![p] = @ + 1] ELSE fr

\* wasmtime_store_delete: the store goes, and with it the WASI config its
\* context took ownership of.
StoreDelete(fr, s) ==
    IF s \in Objs /\ wasi_of[s[1]] # NULL
    THEN Delete(Delete(fr, s), wasi_of[s[1]])
    ELSE Delete(fr, s)

\* The value a local pointer holds before anything was stored into it: NULL,
\* a pointer to no object, or what an earlier call left in the stack slot.
Indeterminate(k) == {NULL, WILD} \cup {o \in Objs : o[2] = k /\ made[o]}

\* a host API defined under another module name than the guests import from
DefineModule_host == "host"

\* line 129: the module name host APIs are defined under
DefineModule == "env"

\* wasmtime_linker_define_func: a name can be defined once per linker.
DefineFails(defs, name) == name \in defs

\* wasmtime_linker_instantiate: "error" on an unresolved import, "trap" when
\* the start function traps, "ok" otherwise.
Instantiate(defs, bc) ==
    IF ~(Imports(bc) \subseteq defs) THEN "error"
    ELSE IF StartTraps(bc) THEN "trap"
    ELSE "ok"

\* ------------------------------------------------- ngx_wasm_wasmtime_load
NoPlugin == [module |-> UNINIT, store |-> UNINIT, context |-> UNINIT,
             linker |-> UNINIT, instance |-> UNINIT]

NoDiag == [made |-> 0, reported |-> 0, freed |-> 0]

LoadFrame0 ==
    [pc |-> "idle", id |-> 0, bytecode |-> "none",
     module |-> UNINIT, store |-> UNINIT, context |-> UNINIT,
     wasi_config |-> UNINIT, linker |-> UNINIT, plugin |-> UNINIT,
     error |-> UNINIT, trap |-> NULL, i |-> 0,
     defs |-> {},          \* names defined in the linker
     steps |-> <<>>,       \* the steps that succeeded, in order
     defined |-> <<>>,     \* the registry entries defined, in order
     errs |-> NoDiag,      \* error objects of this call
     traps |-> NoDiag,     \* trap objects of this call
     log |-> <<>>,         \* messages passed to ngx_log_error at NGX_LOG_ERR
     before |-> [k \in Kinds |-> 0],  \* the heap counters when load began
     after |-> [k \in Kinds |-> 0],   \* the heap counters when it returned
     ret |-> UNINIT]

\* ngx_wasm_wasmtime_report_error, lines 22-39: the error when there is
\* one, else the trap, is logged and released. A trap passed along with an
\* error is not looked at.
ReportError(f, message, error, trap) ==
    IF error # NULL
    THEN [f EXCEPT !.errs.reported = @ + 1, !.errs.freed = @ + 1,
                   !.log = Append(@, message)]
    ELSE [f EXCEPT !.traps.reported = @ + 1, !.traps.freed = @ + 1,
                   !.log = Append(@, message)]

Busy == load.pc \notin {"idle", "returned"}

\* lines 69-84: entry and wasmtime_module_new
LoadCompile(bc) ==
    /\ ~crashed /\ ~Busy /\ EngineLive /\ nloads < MaxLoads
    /\ ncalls = 0     \* plugins are loaded before requests are served
    /\ nloads' = nloads + 1
    /\ LET n == nloads + 1
           f0 == [LoadFrame0 EXCEPT !.id = n, !.bytecode = bc,
                                    !.before = Counters]
       IN IF Valid(bc)
          THEN /\ made' = [made EXCEPT ![Obj(n, "module")] = TRUE]
               /\ mod_code' = [mod_code EXCEPT ![n] = bc]
               /\ load' = [f0 EXCEPT !.module = Obj(n, "module"),
                                     !.error = NULL, !.pc = "store",
                                     !.steps = <<"compile">>]
          ELSE /\ UNCHANGED <<made, mod_code>>
               /\ \E m \in Indeterminate("module") :
                     load' = [f0 EXCEPT !.module = m, !.error = ERR,
                                        !.errs.made = 1,
                                        !.pc = IF m = NULL THEN "returned"
                                               ELSE "store",
                                        !.ret = IF m = NULL THEN NULL
                                                ELSE UNINIT]
    /\ UNCHANGED <<engine_vars, env_vars, frees, wasi_of, plugins, handles,
                   call_vars, crashed>>

\* lines 86-91: wasmtime_store_new, wasmtime_store_context
LoadStore ==
    /\ ~crashed /\ load.pc = "store"
    /\ \E ok \in Outcomes :
          IF ok
          THEN /\ made' = [made EXCEPT ![Obj(load.id, "store")] = TRUE]
               /\ load' = [load EXCEPT !.store = Obj(load.id, "store"),
                                       !.context = Obj(load.id, "store"),
                                       !.steps = Append(@, "store"),
                                       !.pc = "config"]
          ELSE /\ UNCHANGED made
               /\ load' = [load EXCEPT !.store = NULL, !.pc = "free_module"]
    /\ UNCHANGED <<engine_vars, env_vars, frees, mod_code, wasi_of, plugins,
                   handles, nloads, call_vars, crashed>>

\* lines 93-102: wasi_config_new and the inherit calls
LoadConfig ==
    /\ ~crashed /\ load.pc = "config"
    /\ \E ok \in Outcomes :
          IF ok
          THEN /\ made' = [made EXCEPT ![Obj(load.id, "config")] = TRUE]
               /\ load' = [load EXCEPT !.wasi_config = Obj(load.id, "config"),
                                       !.steps = Append(@, "config"),
                                       !.pc = "set_wasi"]
          ELSE /\ UNCHANGED made
               /\ load' = [load EXCEPT !.wasi_config = NULL,
                                       !.pc = "free_store"]
    /\ UNCHANGED <<engine_vars, env_vars, frees, mod_code, wasi_of, plugins,
                   handles, nloads, call_vars, crashed>>

\* lines 104-108: wasmtime_context_set_wasi takes the config over, whether
\* it succeeds (the context owns it) or fails (it is dropped at once).
LoadSetWasi ==
    /\ ~crashed /\ load.pc = "set_wasi"
    /\ \E ok \in Outcomes :
          IF ok
          THEN /\ wasi_of' = [wasi_of EXCEPT ![load.id] = load.wasi_config]
               /\ UNCHANGED frees
               /\ load' = [load EXCEPT !.error = NULL,
                                       !.steps = Append(@, "set_wasi"),
                                       !.pc = "linker"]
          ELSE /\ frees' = Delete(frees, load.wasi_config)
               /\ UNCHANGED wasi_of
               /\ load' = [ReportError([load EXCEPT !.errs.made = @ + 1],
                                       "failed to init WASI: ", ERR, NULL)
                             EXCEPT !.error = ERR, !.pc = "free_config"]
    /\ UNCHANGED <<engine_vars, env_vars, made, mod_code, plugins, handles,
                   nloads, call_vars, crashed>>

\* lines 110-113: wasmtime_linker_new
LoadLinker ==
    /\ ~crashed /\ load.pc = "linker"
    /\ \E ok \in Outcomes :
          IF ok
          THEN /\ made' = [made EXCEPT ![Obj(load.id, "linker")] = TRUE]
               /\ load' = [load EXCEPT !.linker = Obj(load.id, "linker"),
                                       !.steps = Append(@, "linker"),
                                       !.pc = "define_wasi"]
          ELSE /\ UNCHANGED made
               /\ load' = [load EXCEPT !.linker = NULL, !.pc = "free_config"]
    /\ UNCHANGED <<engine_vars, env_vars, frees, mod_code, wasi_of, plugins,
                   handles, nloads, call_vars, crashed>>

\* lines 115-119: wasmtime_linker_define_wasi
LoadDefineWasi ==
    /\ ~crashed /\ load.pc = "define_wasi"
    /\ \E ok \in Outcomes :
          IF ok
          THEN load' = [load EXCEPT !.error = NULL, !.i = 0,
                                    !.steps = Append(@, "define_wasi"),
                                    !.pc = "define_api"]
          ELSE load' = [ReportError([load EXCEPT !.errs.made = @ + 1],
                                    "failed to init WASI: ", ERR, NULL)
                          EXCEPT !.error = ERR, !.pc = "free_linker"]
    /\ UNCHANGED <<engine_vars, env_vars, heap_vars, plugins, handles,
                   nloads, call_vars, crashed>>

\* the loop without the goto of line 137: a failed definition is reported
\* and the loop goes on
LoadDefineApi_continue ==
    /\ ~crashed /\ load.pc = "define_api"
    /\ LET name == host_apis[load.i + 1]
       IN IF name = ""
          THEN load' = [load EXCEPT !.pc = "alloc_plugin"]
          ELSE IF name \in load.defs
          THEN load' = [load EXCEPT !.errs.made = @ + 1,
                                    !.errs.reported = @ + 1,
                                    !.errs.freed = @ + 1,
                                    !.log = Append(@, "failed to define API"),
                                    !.error = ERR, !.i = @ + 1]
          ELSE load' = [load EXCEPT !.error = NULL,
                                    !.defs = @ \cup {name},
                                    !.defined = Append(@, <<DefineModule, name>>),
                                    !.i = @ + 1]
    /\ UNCHANGED <<engine_vars, env_vars, heap_vars, plugins, handles,
                   nloads, call_vars, crashed>>

\* lines 121-139: one turn of the loop over host_apis, i counting from 0
LoadDefineApi ==
    /\ ~crashed /\ load.pc = "define_api"
    /\ LET name == host_apis[load.i + 1]
       IN IF name = ""
          THEN load' = [load EXCEPT !.pc = "alloc_plugin"]
          ELSE IF DefineFails(load.defs, name)
          THEN load' = [ReportError([load EXCEPT !.errs.made = @ + 1],
                                    "failed to define API", ERR, NULL)
                          EXCEPT !.error = ERR, !.pc = "free_linker"]
          ELSE load' = [load EXCEPT !.error = NULL,
                                    !.defs = @ \cup {name},
                                    !.defined = Append(@, <<DefineModule, name>>),
                                    !.i = @ + 1]
    /\ UNCHANGED <<engine_vars, env_vars, heap_vars, plugins, handles,
                   nloads, call_vars, crashed>>

\* lines 141-144: ngx_alloc of the Plugin record, its fields not yet written
LoadAllocPlugin ==
    /\ ~crashed /\ load.pc = "alloc_plugin"
    /\ \E ok \in Outcomes :
          IF ok
          THEN /\ made' = [made EXCEPT ![Obj(load.id, "plugin")] = TRUE]
               /\ plugins' = [plugins EXCEPT ![load.id] = NoPlugin]
               /\ load' = [load EXCEPT !.plugin = Obj(load.id, "plugin"),
                                       !.steps = Append(@, "alloc_plugin"),
                                       !.pc = "instantiate"]
          ELSE /\ UNCHANGED <<made, plugins>>
               /\ load' = [load EXCEPT !.plugin = NULL, !.pc = "free_linker"]
    /\ UNCHANGED <<engine_vars, env_vars, frees, mod_code, wasi_of, handles,
                   nloads, call_vars, crashed>>

\* lines 146-150: wasmtime_linker_instantiate. Only the error is tested; a
\* trap leaves error NULL, the instance unwritten, and control goes on.
LoadInstantiate ==
    /\ ~crashed /\ load.pc = "instantiate"
    /\ IF ~Live(load.module)
       THEN /\ crashed' = TRUE
            /\ UNCHANGED <<plugins, load>>
       ELSE /\ UNCHANGED crashed
            /\ LET out == Instantiate(load.defs, mod_code[load.module[1]])
               IN CASE out = "ok" ->
                         /\ plugins' = [plugins EXCEPT ![load.id].instance =
                                           <<load.module[1], "instance">>]
                         /\ load' = [load EXCEPT !.error = NULL,
                                        !.steps = Append(@, "instantiate"),
                                        !.pc = "fill"]
                    [] out = "trap" ->
                         /\ UNCHANGED plugins
                         /\ load' = [load EXCEPT !.error = NULL, !.trap = TRAP,
                                        !.traps.made = @ + 1, !.pc = "fill"]
                    [] out = "error" ->
                         /\ UNCHANGED plugins
                         /\ load' = [ReportError(
                                        [load EXCEPT !.errs.made = @ + 1],
                                        "failed to new instance: ", ERR, NULL)
                                      EXCEPT !.error = ERR,
                                             !.pc = "free_linker"]
    /\ UNCHANGED <<engine_vars, env_vars, heap_vars, handles, nloads,
                   call_vars>>

\* lines 152-159: the record is filled in and returned
LoadReturnPlugin ==
    /\ ~crashed /\ load.pc = "fill"
    /\ plugins' = [plugins EXCEPT ![load.id].module = load.module,
                                  ![load.id].store = load.store,
                                  ![load.id].context = load.context,
                                  ![load.id].linker = load.linker]
    /\ handles' = handles \cup {load.plugin}
    /\ load' = [load EXCEPT !.ret = load.plugin, !.after = Counters,
                            !.pc = "returned"]
    /\ UNCHANGED <<engine_vars, env_vars, heap_vars, nloads, call_vars, crashed>>

\* lines 161-162, label free_linker
FreeLinker ==
    /\ ~crashed /\ load.pc = "free_linker"
    /\ frees' = Delete(frees, load.linker)
    /\ load' = [load EXCEPT !.pc = "free_config"]
    /\ UNCHANGED <<engine_vars, env_vars, made, mod_code, wasi_of, plugins,
                   handles, nloads, call_vars, crashed>>

\* lines 164-165, label free_config
FreeConfig ==
    /\ ~crashed /\ load.pc = "free_config"
    /\ frees' = Delete(frees, load.wasi_config)
    /\ load' = [load EXCEPT !.pc = "free_store"]
    /\ UNCHANGED <<engine_vars, env_vars, made, mod_code, wasi_of, plugins,
                   handles, nloads, call_vars, crashed>>

\* free_store without the wasmtime_store_delete call
FreeStore_leak ==
    /\ ~crashed /\ load.pc = "free_store"
    /\ load' = [load EXCEPT !.pc = "free_module"]
    /\ UNCHANGED <<engine_vars, env_vars, heap_vars, plugins, handles, nloads,
                   call_vars, crashed>>

\* lines 167-168, label free_store
FreeStore ==
    /\ ~crashed /\ load.pc = "free_store"
    /\ frees' = StoreDelete(frees, load.store)
    /\ load' = [load EXCEPT !.pc = "free_module"]
    /\ UNCHANGED <<engine_vars, env_vars, made, mod_code, wasi_of, plugins,
                   handles, nloads, call_vars, crashed>>

\* lines 170-173, label free_module and the failure return
FreeModule ==
    /\ ~crashed /\ load.pc = "free_module"
    /\ IF load.module = WILD
       THEN /\ crashed' = TRUE
            /\ UNCHANGED <<frees, load>>
       ELSE /\ UNCHANGED crashed
            /\ frees' = Delete(frees, load.module)
            /\ load' = [load EXCEPT !.ret = NULL, !.pc = "returned"]
    /\ UNCHANGED <<engine_vars, env_vars, made, mod_code, wasi_of, plugins,
                   handles, nloads, call_vars>>

\* ----------------------------------------------- ngx_wasm_wasmtime_unload
\* unload without the wasmtime_linker_delete call
Unload_leak(p) ==
    /\ ~crashed /\ ~Busy /\ p \in handles
    /\ \A t \in Threads : call[t].pc \in {"idle", "returned"}
    /\ LET r == plugins[p[1]]
       IN frees' = Delete(StoreDelete(Delete(frees, r.module), r.store), p)
    /\ handles' = handles \ {p}
    /\ UNCHANGED <<engine_vars, env_vars, made, mod_code, wasi_of, plugins,
                   nloads, load, call_vars, crashed>>

\* lines 177-189
Unload(p) ==
    /\ ~crashed /\ ~Busy /\ p \in handles
    /\ \A t \in Threads : call[t].pc \in {"idle", "returned"}
    /\ LET r == plugins[p[1]]
       IN frees' = Delete(Delete(StoreDelete(Delete(frees, r.module), r.store),
                                 r.linker), p)
    /\ handles' = handles \ {p}
    /\ UNCHANGED <<engine_vars, env_vars, made, mod_code, wasi_of, plugins,
                   nloads, load, call_vars, crashed>>

\* ------------------------------------------------- ngx_wasm_wasmtime_call
STATIC == <<0, "param_int32_int32">>   \* the address of the static slots

CallFrame0 ==
    [pc |-> "idle", plugin |-> NULL, name |-> "", has_result |-> FALSE,
     param_type |-> NGX_WASM_PARAM_VOID, args |-> NoArgs,
     found |-> FALSE, params |-> NULL, param_num |-> 0,
     invoked |-> FALSE,    \* the guest function ran
     received |-> <<>>,    \* the arguments the guest function was run with
     overlapped |-> FALSE, \* another call was in flight during this one
     seq |-> 0,            \* the number of this call among the calls started
     after_fault |-> FALSE,\* the thread's previous call, of another export
                           \* of this Plugin, ended in an error or a trap
     errs |-> NoDiag, traps |-> NoDiag, log |-> <<>>,
     rc |-> NGX_OK]

\* wasmtime_instance_export_get on the instance of a module
ExportGet(bc, name) == name \in Exports(bc)

\* What the guest function computes from its arguments
GuestValue(fn, ps) ==
    CASE fn = "add" -> AddI32(ps[1], ps[2])
      [] fn = "wide" -> 7
      [] OTHER -> 0

\* wasmtime_func_call: an error when the argument or result count does not
\* fit the function's type, a trap when the guest faults, else the result.
FuncCall(fn, ps, nresults) ==
    IF Len(ps) # NParams(fn) \/ nresults # NResults(fn)
    THEN [error |-> ERR, trap |-> NULL, invoked |-> FALSE,
          kind |-> "none", i32 |-> 0]
    ELSE IF fn = "boom"
    THEN [error |-> NULL, trap |-> TRAP, invoked |-> TRUE,
          kind |-> "none", i32 |-> 0]
    ELSE [error |-> NULL, trap |-> NULL, invoked |-> TRUE,
          kind |-> ResultKind(fn), i32 |-> GuestValue(fn, ps)]

\* the two arguments stored in the wrong slots
MarshalI32I32_swapped(args) == <<args[2], args[1]>>

\* lines 221-222: the two va_arg reads go into the static slots, in order
MarshalI32I32(args) == <<args[1], args[2]>>

\* a missing export treated as a failure
NotFoundRc_error == NGX_ERROR

\* lines 210-214: the status returned for a name that is not exported
NotFoundRc == NGX_OK

\* an unrecognised shape tag treated as a success
UnknownParamRc_ok == NGX_OK

\* lines 229-231: the status returned for an unrecognised shape tag
UnknownParamRc == NGX_ERROR

\* Thread t is between the export lookup and the return of its call
InFlight(t) == call[t].pc \in {"arg0", "arg1", "invoke"}

\* lines 193-220, 226-232: the export lookup and the switch on the shape
\* tag, up to the first store into the static slots
CallLookup(t, p, name, has_result, param_type, args) ==
    /\ ~crashed /\ ~Busy /\ ncalls < MaxCalls
    /\ ~InFlight(t) /\ p \in handles
    /\ \A u \in Threads : InFlight(u) => call[u].plugin # p
    /\ ncalls' = ncalls + 1
    /\ LET f0 == [CallFrame0 EXCEPT !.plugin = p, !.name = name,
                        !.has_result = has_result,
                        !.param_type = param_type, !.args = args,
                        !.seq = ncalls + 1,
                        !.overlapped = \E u \in Threads : InFlight(u),
                        !.after_fault =
                            /\ call[t].pc = "returned"
                            /\ call[t].plugin = p /\ call[t].name # name
                            /\ call[t].errs.made + call[t].traps.made > 0]
           others == [u \in Threads |->
                        IF InFlight(u) THEN [call[u] EXCEPT !.overlapped = TRUE]
                        ELSE call[u]]
           inst == plugins[p[1]].instance
       IN IF inst = UNINIT
          THEN /\ crashed' = TRUE
               /\ UNCHANGED <<call, param_int32_int32>>
          ELSE /\ UNCHANGED crashed
               /\ IF ~ExportGet(mod_code[inst[1]], name)
                  THEN /\ call' = [others EXCEPT ![t] =
                              [f0 EXCEPT !.rc = NotFoundRc, !.pc = "returned"]]
                       /\ UNCHANGED param_int32_int32
                  ELSE CASE param_type = NGX_WASM_PARAM_I32_I32 ->
                              /\ UNCHANGED param_int32_int32
                              /\ call' = [others EXCEPT ![t] =
                                    [f0 EXCEPT !.found = TRUE,
                                               !.params = STATIC,
                                               !.pc = "arg0"]]
                         [] param_type = NGX_WASM_PARAM_VOID ->
                              /\ UNCHANGED param_int32_int32
                              /\ call' = [others EXCEPT ![t] =
                                    [f0 EXCEPT !.found = TRUE,
                                               !.pc = "invoke"]]
                         [] OTHER ->
                              /\ UNCHANGED param_int32_int32
                              /\ call' = [others EXCEPT ![t] =
                                    [f0 EXCEPT !.found = TRUE,
                                       !.log = <<"unknown param type: ">>,
                                       !.rc = UnknownParamRc,
                                       !.pc = "returned"]]
    /\ UNCHANGED <<engine_vars, env_vars, heap_vars, plugins, handles,
                   nloads, load>>

\* lines 221-223: one store into the static slots. The two stores are
\* separate and nothing keeps another thread from storing in between.
CallStoreArg(t) ==
    /\ ~crashed /\ call[t].pc \in {"arg0", "arg1"}
    /\ LET ps == MarshalI32I32(call[t].args)
       IN IF call[t].pc = "arg0"
          THEN /\ param_int32_int32' = [param_int32_int32 EXCEPT ![1] = ps[1]]
               /\ call' = [call EXCEPT ![t].pc = "arg1"]
          ELSE /\ param_int32_int32' = [param_int32_int32 EXCEPT ![2] = ps[2]]
               /\ call' = [call EXCEPT ![t].param_num = 2,
                                       ![t].pc = "invoke"]
    /\ UNCHANGED <<engine_vars, env_vars, heap_vars, plugins, handles,
                   nloads, load, ncalls, crashed>>

\* the status with the error/trap test of line 236 left out
CallRc_swallow(r, has_result) ==
    IF ~has_result THEN NGX_OK
    ELSE IF r.kind # "i32" THEN NGX_ERROR
    ELSE r.i32

\* the status with the kind test of line 247 left out
CallRc_anykind(r, has_result) ==
    IF r.error # NULL \/ r.trap # NULL THEN NGX_ERROR
    ELSE IF ~has_result THEN NGX_OK
    ELSE r.i32

\* lines 236-257: the status the call returns for an invocation outcome r
CallRc(r, has_result) ==
    IF r.error # NULL \/ r.trap # NULL THEN NGX_ERROR
    ELSE IF ~has_result THEN NGX_OK
    ELSE IF r.kind # "i32" THEN NGX_ERROR
    ELSE r.i32

\* lines 234-258: the invocation and the marshalling of its outcome
CallInvoke(t) ==
    /\ ~crashed /\ call[t].pc = "invoke"
    /\ LET f == call[t]
           ps == IF f.params = STATIC
                 THEN SubSeq(param_int32_int32, 1, f.param_num)
                 ELSE <<>>
           r == FuncCall(f.name, ps, IF f.has_result THEN 1 ELSE 0)
           g == [f EXCEPT !.invoked = r.invoked,
                          !.received = IF r.invoked THEN ps ELSE <<>>,
                          !.errs.made = IF r.error # NULL THEN 1 ELSE 0,
                          !.traps.made = IF r.trap # NULL THEN 1 ELSE 0,
                          !.rc = CallRc(r, f.has_result),
                          !.pc = "returned"]
       IN call' = [call EXCEPT ![t] =
             IF r.error # NULL \/ r.trap # NULL
             THEN ReportError(g, "failed to call function: ", r.error, r.trap)
             ELSE IF f.has_result /\ r.kind # "i32"
             THEN [g EXCEPT !.log = <<"function returns unexpected type: ">>]
             ELSE g]
    /\ UNCHANGED <<engine_vars, env_vars, heap_vars, plugins, handles,
                   nloads, load, param_int32_int32, ncalls, crashed>>

\* The calls the embedding server issues. Calls on different Plugins may
\* overlap; thread t2 stands for the second of two overlapping two-int32
\* calls of add for a result and makes that one call, every other call is
\* issued by t1.
CallInputs(t) ==
    { in \in [name : CallNames, has_result : BOOLEAN,
              param_type : {NGX_WASM_PARAM_VOID, NGX_WASM_PARAM_I32_I32,
                            UnknownParamType},
              args : ArgPairs \cup {NoArgs}] :
        /\ (in.args # NoArgs) <=> (in.param_type = NGX_WASM_PARAM_I32_I32)
        /\ t = "t1" => ~InFlight("t2")
        /\ t = "t2" => /\ InFlight("t1") /\ call["t2"].pc = "idle"
                       /\ call["t1"].param_type = NGX_WASM_PARAM_I32_I32
                       /\ call["t1"].name = "add" /\ call["t1"].has_result
                       /\ in.param_type = NGX_WASM_PARAM_I32_I32
                       /\ in.name = "add" /\ in.has_result }

Call ==
    \E t \in Threads : \E p \in handles : \E in \in CallInputs(t) :
        CallLookup(t, p, in.name, in.has_result, in.param_type, in.args)

\* the status of an init that reports success whatever the engine is
InitRc_ok(engine) == NGX_OK

\* lines 48-52: the status init returns for the engine it was given
InitRc(engine) == IF engine = NULL THEN NGX_DECLINED ELSE NGX_OK

\* ------------------------------- ngx_wasm_wasmtime_init, lines 42-53
EngineInit ==
    /\ ~crashed /\ ~Busy /\ handles = {} /\ ninits < MaxInits
    /\ ~EngineLive    \* one init/cleanup pair at a time
    /\ \A t \in Threads : ~InFlight(t)
    /\ ninits' = ninits + 1
    /\ \E ok \in Outcomes :
          IF ok
          THEN /\ eng_made' = eng_made + 1
               /\ vm_engine' = <<eng_made + 1, "engine">>
          ELSE /\ UNCHANGED eng_made
               /\ vm_engine' = NULL
    /\ init_rc' = InitRc(vm_engine')
    /\ UNCHANGED <<eng_frees, ncleanups, env_vars, heap_vars, plugins,
                   handles, nloads, load, call_vars, crashed>>

\* ------------------------------- ngx_wasm_wasmtime_cleanup, lines 56-65
EngineCleanup ==
    /\ ~crashed /\ ~Busy /\ handles = {} /\ ncleanups < MaxCleanups
    /\ \A t \in Threads : ~InFlight(t)
    /\ ncleanups' = ncleanups + 1
    /\ IF vm_engine = NULL
       THEN UNCHANGED eng_frees
       ELSE eng_frees' = [eng_frees EXCEPT ![vm_engine[1]] = @ + 1]
    /\ UNCHANGED <<vm_engine, eng_made, init_rc, ninits, env_vars, heap_vars,
                   plugins, handles, nloads, load, call_vars, crashed>>

\* ------------------------------------------------------------------ spec
InitState ==
    /\ vm_engine = NULL
    /\ eng_made = 0
    /\ eng_frees = [n \in 1..MaxInits |-> 0]
    /\ init_rc = NGX_OK
    /\ ninits = 0 /\ ncleanups = 0
    /\ host_apis \in Registries
    /\ made = [o \in Objs |-> FALSE]
    /\ frees = [o \in Objs |-> 0]
    /\ mod_code = [n \in Attempts |-> "none"]
    /\ wasi_of = [n \in Attempts |-> NULL]
    /\ plugins = [n \in Attempts |-> NoPlugin]
    /\ handles = {}
    /\ nloads = 0
    /\ load = LoadFrame0
    /\ call = [t \in Threads |-> CallFrame0]
    /\ param_int32_int32 = <<0, 0>>
    /\ ncalls = 0
    /\ crashed = FALSE

\* Plugin life cycle under resource exhaustion: every fallible step of load
\* may fail.
Init == InitState /\ faulty = TRUE

LoadStep ==
    \/ \E bc \in Bytecodes : LoadCompile(bc)
    \/ LoadStore
    \/ LoadConfig
    \/ LoadSetWasi
    \/ LoadLinker
    \/ LoadDefineWasi
    \/ LoadDefineApi
    \/ LoadAllocPlugin
    \/ LoadInstantiate
    \/ LoadReturnPlugin
    \/ FreeLinker
    \/ FreeConfig
    \/ FreeStore
    \/ FreeModule

Next ==
    \/ EngineInit
    \/ LoadStep
    \/ \E p \in handles : Unload(p)

Spec == Init /\ [][Next]_vars

\* Request serving: plugins are loaded with every allocation succeeding and
\* their exports are then called.
InitCall == InitState /\ faulty = FALSE

NextCall ==
    \/ EngineInit
    \/ LoadStep
    \/ Call
    \/ \E t \in Threads : CallStoreArg(t)
    \/ \E t \in Threads : CallInvoke(t)

SpecCall == InitCall /\ [][NextCall]_vars

\* Engine life cycle: the server initialises the VM, loads and unloads
\* plugins, and cleans the VM up, any number of times.
NextEngine ==
    \/ EngineInit
    \/ EngineCleanup
    \/ LoadStep
    \/ \E p \in handles : Unload(p)

SpecEngine == Init /\ [][NextEngine]_vars

\* ================================================================ claims
Returned == load.pc = "returned"
Own(k) == Obj(load.id, k)        \* the cell of kind k of the current attempt
RegistryNames == SubSeq(host_apis, 1, Len(host_apis) - 1)
\* the registry entries as the linker holds them once all are defined
EnvEntries == [j \in 1..Len(RegistryNames) |-> <<"env", RegistryNames[j]>>]
AllSteps == <<"compile", "store", "config", "set_wasi", "linker",
              "define_wasi", "alloc_plugin", "instantiate">>

\* C1: load returns a Plugin handle only when every construction step
\* succeeded - compile, store, capability config attached, linker, every host
\* API defined, instantiation without error and without start-up trap - and
\* the record's module, store, context, linker and instance are all set; an
\* instantiation ending in an error or a trap makes load return no handle.
C1_HandleOnlyWhenConstructed ==
    /\ (Returned /\ load.ret # NULL) =>
          /\ load.steps = AllSteps
          /\ load.defined = EnvEntries
          /\ load.trap = NULL
          /\ \A fld \in {"module", "store", "context", "linker", "instance"} :
                plugins[load.id][fld] # UNINIT
    /\ (Returned /\ load.trap # NULL) => load.ret = NULL

\* C2: when load returns failure, none of the module, the store and the
\* linker created during that attempt is still live.
C2_FailureRetainsNothing ==
    (Returned /\ load.ret = NULL) =>
        \A k \in {"module", "store", "linker"} : ~Live(Own(k))

\* a failed load that had created module, store and linker
C2_Witness ==
    /\ Returned /\ load.ret = NULL
    /\ \A k \in {"module", "store", "linker"} : made[Own(k)]

\* C3: during one load attempt (of a module that compiled) no intermediate
\* resource (module, store, capability config, linker) is released twice.
C3_ReleasedAtMostOnce ==
    (load.id > 0 /\ Valid(load.bytecode)) =>
        \A k \in {"module", "store", "config", "linker"} : frees[Own(k)] <= 1

\* C4: when instantiation fails after the Plugin record was allocated, the
\* record is released before load returns failure.
C4_PluginRecordReleased ==
    (Returned /\ load.ret = NULL /\ made[Own("plugin")]) =>
        ~Live(Own("plugin"))

\* C5: for bytecode that fails to compile, load returns failure and has
\* created no store, no capability config, no linker and no Plugin record.
C5_CompileFailureCreatesNothing ==
    (load.id > 0 /\ ~Valid(load.bytecode)) =>
        /\ Returned => load.ret = NULL
        /\ \A k \in {"store", "config", "linker", "plugin"} : ~made[Own(k)]

\* The exports of the instance a Plugin record holds
InstanceExports(p) == Exports(mod_code[plugins[p[1]].instance[1]])
HasInstance(p) == plugins[p[1]].instance # UNINIT

\* A step of thread t that runs the export lookup of a new call on a Plugin
\* that has an instance
LookupStep(t) ==
    /\ ncalls' = ncalls + 1
    /\ call'[t].seq = ncalls + 1
    /\ ~crashed'

\* C6: for every loaded Plugin, every name absent from the exports of its
\* instance, every has_result and every shape tag, call returns NGX_OK, runs
\* no guest function and leaves the Plugin, the heap and the static argument
\* slots unchanged.
C6_AbsentExportIsNoOp ==
    [][\A t \in Threads :
          (LookupStep(t) /\ call'[t].name \notin InstanceExports(call'[t].plugin))
          => /\ call'[t].pc = "returned"
             /\ call'[t].rc = NGX_OK
             /\ ~call'[t].invoked /\ call'[t].received = <<>>
             /\ UNCHANGED <<plugins, handles, heap_vars, param_int32_int32>>
      ]_vars

\* a call of an absent name has returned
C6_Witness ==
    \E t \in Threads :
        /\ call[t].pc = "returned" /\ call[t].plugin \in handles
        /\ HasInstance(call[t].plugin)
        /\ call[t].name \notin InstanceExports(call[t].plugin)
        /\ call[t].has_result
        /\ call[t].param_type = NGX_WASM_PARAM_I32_I32

\* A step of thread t that runs the invocation of its call in flight
InvokeStep(t) == call[t].pc = "invoke" /\ call'[t].pc = "returned"
Faulted(f) == f.errs.made + f.traps.made > 0

\* The call's shape fits the type of a function that neither traps nor
\* returns anything but an i32
FitsExport(f) ==
    /\ f.name \in {"add", "nop"}
    /\ f.param_num = NParams(f.name)
    /\ (IF f.has_result THEN 1 ELSE 0) = NResults(f.name)

\* C7: a call whose export raises an engine error or a trap returns NGX_ERROR
\* and leaves the Plugin record and its resources unchanged and unreleased;
\* the next call on that Plugin, of another export that does not fault, runs
\* the guest function and returns its result.
C7_FaultIsLocal ==
    [][\A t \in Threads :
          /\ (InvokeStep(t) /\ Faulted(call'[t])) =>
                /\ call'[t].rc = NGX_ERROR
                /\ UNCHANGED <<plugins, handles, heap_vars>>
          /\ (InvokeStep(t) /\ call[t].after_fault /\ FitsExport(call[t])) =>
                /\ call'[t].invoked
                /\ call'[t].rc = IF call[t].has_result
                                 THEN GuestValue(call[t].name, call'[t].received)
                                 ELSE NGX_OK
      ]_vars

\* after a faulting call, add on the same Plugin has returned its sum
C7_Witness ==
    \E t \in Threads :
        /\ call[t].pc = "returned" /\ call[t].after_fault
        /\ call[t].name = "add" /\ call[t].invoked
        /\ call[t].rc = 5 /\ call[t].plugin \in handles

\* C8: a load (of bytecode that compiled) that returned a Plugin, followed
\* at once by its unload, puts every resource counter back to its value
\* before the load, each of the module, the store with its capability config,
\* the linker and the Plugin record having been released exactly once.
C8_LoadUnloadRoundTrip ==
    [][\A p \in handles :
          (/\ handles' = handles \ {p}
           /\ load.id = p[1] /\ Counters = load.after
           /\ Valid(load.bytecode))
          => /\ Counters' = load.before
             /\ \A k \in Kinds : frees'[Own(k)] = 1
      ]_vars

\* every load so far, at least two, was a round trip
C8_Witness ==
    /\ nloads >= 2 /\ handles = {}
    /\ \A n \in 1..nloads : \A k \in Kinds : frees[Obj(n, k)] = 1

\* C9: an existing export invoked without error or trap, no other call
\* being in flight meanwhile: with the two-int32 shape the guest receives the
\* caller's two arguments in the caller's order, with the void shape none;
\* a requested i32 result is returned as it is (add(2,3) returns 5), and
\* without a requested result the call returns NGX_OK.
C9_ArgumentsAndResult ==
    \A t \in Threads :
        LET f == call[t]
        IN (/\ f.pc = "returned" /\ f.plugin \in handles
            /\ HasInstance(f.plugin) /\ f.name \in InstanceExports(f.plugin)
            /\ f.param_type \in {NGX_WASM_PARAM_VOID, NGX_WASM_PARAM_I32_I32}
            /\ ~Faulted(f) /\ ~f.overlapped)
           => /\ f.invoked
              /\ f.param_type = NGX_WASM_PARAM_I32_I32 => f.received = f.args
              /\ f.param_type = NGX_WASM_PARAM_VOID => f.received = <<>>
              /\ (f.has_result /\ ResultKind(f.name) = "i32")
                    => f.rc = GuestValue(f.name, f.args)
              /\ (f.name = "add" /\ f.args = <<2, 3>>) => f.rc = 5
              /\ ~f.has_result => f.rc = NGX_OK

\* add(2,3) has returned 5
C9_Witness ==
    \E t \in Threads :
        /\ call[t].pc = "returned" /\ ~call[t].overlapped
        /\ call[t].name = "add" /\ call[t].args = <<2, 3>>
        /\ call[t].received = <<2, 3>> /\ call[t].rc = 5

\* The first registry entry whose name an earlier entry has
DupAt(j) == \E i \in 1..(j - 1) : host_apis[i] = host_apis[j]
HasDup == \E j \in 1..Len(RegistryNames) : DupAt(j)
FirstDup ==
    CHOOSE j \in 1..Len(RegistryNames) :
        DupAt(j) /\ \A k \in 1..(j - 1) : ~DupAt(k)

\* C10: when the definition of a registry entry fails, load stops at that
\* entry: neither it nor a later entry is defined, no Plugin record is
\* allocated, the module is not instantiated, the failure is logged and load
\* returns failure.
C10_DefineFailureAborts ==
    (HasDup /\ load.id > 0) =>
        /\ Len(load.defined) < FirstDup
        /\ ~made[Own("plugin")]
        /\ plugins[load.id].instance = UNINIT
        /\ load.pc \notin {"alloc_plugin", "instantiate", "fill"}
        /\ (Returned /\ Len(load.defined) = FirstDup - 1) =>
              /\ load.ret = NULL
              /\ load.log = <<"failed to define API">>

\* a load has failed on the duplicate entry
C10_Witness ==
    /\ HasDup /\ Returned /\ load.ret = NULL
    /\ Len(load.defined) = FirstDup - 1
    /\ load.log = <<"failed to define API">>

\* A step that runs ngx_wasm_wasmtime_init / ngx_wasm_wasmtime_cleanup
InitStep == ninits' = ninits + 1
CleanupStep == ncleanups' = ncleanups + 1

\* C11: init returns NGX_DECLINED exactly when the engine could not be
\* constructed and NGX_OK otherwise; a cleanup called when init was never
\* called or when the last init failed destroys nothing, and a cleanup called
\* after a successful init destroys the engine.
C11_InitAndCleanupStatus ==
    [][ /\ InitStep =>
            /\ (init_rc' = NGX_DECLINED) <=> (eng_made' = eng_made)
            /\ (init_rc' = NGX_OK) <=> (eng_made' = eng_made + 1)
            /\ init_rc' \in {NGX_OK, NGX_DECLINED}
        /\ CleanupStep =>
            IF ninits = 0 \/ init_rc = NGX_DECLINED
            THEN eng_frees' = eng_frees
            ELSE /\ eng_frees'[eng_made] = eng_frees[eng_made] + 1
                 /\ \A n \in DOMAIN eng_frees :
                       n # eng_made => eng_frees'[n] = eng_frees[n] ]_vars

\* a cleanup after a successful init has destroyed the engine
C11_Witness ==
    /\ ninits = 1 /\ init_rc = NGX_OK /\ ncleanups = 1
    /\ eng_made = 1 /\ eng_frees[1] = 1

\* C17: over any sequence of init and cleanup calls every engine created is
\* destroyed at most once: a cleanup that follows the cleanup which destroyed
\* the engine does not destroy the same engine again.
C17_EngineDestroyedAtMostOnce ==
    \A n \in DOMAIN eng_frees : eng_frees[n] <= 1

\* Every error and trap object of frame f was reported once and released once
Settled(f) ==
    /\ f.errs.reported = f.errs.made /\ f.errs.freed = f.errs.made
    /\ f.traps.reported = f.traps.made /\ f.traps.freed = f.traps.made

\* C12: every engine error object and every trap object produced inside load
\* or call has been passed to the error reporter, logged once and released
\* exactly once when the operation returns - a compile error and an
\* instantiation trap included.
C12_DiagnosticsReportedAndReleased ==
    /\ Returned => Settled(load)
    /\ \A t \in Threads : call[t].pc = "returned" => Settled(call[t])

\* C13: a call of an existing export with a shape tag that is neither the
\* void shape nor the two-int32 shape returns NGX_ERROR, invokes no guest
\* function and does not write the shared argument slots.
C13_UnknownShapeRejected ==
    [][\A t \in Threads :
          ( /\ LookupStep(t)
            /\ call'[t].found
            /\ call'[t].param_type \notin {NGX_WASM_PARAM_VOID,
                                           NGX_WASM_PARAM_I32_I32} )
          => /\ call'[t].pc = "returned"
             /\ call'[t].rc = NGX_ERROR
             /\ ~call'[t].invoked /\ call'[t].received = <<>>
             /\ call'[t].params = NULL
             /\ param_int32_int32' = param_int32_int32
             /\ UNCHANGED <<heap_vars, plugins, handles>> ]_vars

\* add was called with an unknown shape after a two-int32 call had filled
\* the slots
C13_Witness ==
    /\ call["t1"].pc = "returned" /\ call["t1"].found
    /\ call["t1"].name = "add"
    /\ call["t1"].param_type = UnknownParamType
    /\ call["t1"].rc = NGX_ERROR /\ ~call["t1"].invoked
    /\ param_int32_int32 = <<2, 3>>

\* C14: when a result was requested and the invocation completed without
\* error or trap but the value returned is not a 32-bit integer, the call
\* returns NGX_ERROR and not the payload of that value.
C14_ResultKindMismatch ==
    \A t \in Threads :
        LET f == call[t]
        IN ( /\ f.pc = "returned" /\ f.invoked /\ f.has_result
             /\ ~Faulted(f)
             /\ ResultKind(f.name) # "i32" )
           => /\ f.rc = NGX_ERROR
              /\ f.rc # GuestValue(f.name, f.received)
              /\ f.log = <<"function returns unexpected type: ">>

\* the export returning a 64-bit integer was invoked for a result
C14_Witness ==
    /\ call["t1"].pc = "returned" /\ call["t1"].invoked
    /\ call["t1"].name = "wide" /\ call["t1"].has_result
    /\ ~Faulted(call["t1"])
    /\ call["t1"].rc = NGX_ERROR

Prefix(s, t) == Len(s) <= Len(t) /\ s = SubSeq(t, 1, Len(s))
BeforeDefine == SubSeq(AllSteps, 1, 6)
BeforeInstantiate == SubSeq(AllSteps, 1, 7)

\* C15: in a load (of bytecode that compiled) the steps run in the order
\* compile, store, capability config created and attached, linker, WASI and
\* host API definitions, Plugin record, instantiation; the registry entries
\* before the empty name are defined once each, in registry order, under
\* "env", and all of them before the record is allocated and the module
\* instantiated; a load that returns a Plugin has done all of this.
C15_StepOrder ==
    [][ Valid(load'.bytecode) =>
         /\ Prefix(load'.steps, AllSteps)
         /\ Prefix(load'.defined, EnvEntries)
         /\ (load'.defined # load.defined /\ load'.id = load.id) =>
               /\ load.steps = BeforeDefine
               /\ Len(load'.defined) = Len(load.defined) + 1
         /\ (load.pc = "alloc_plugin" /\ load'.pc # load.pc) =>
               /\ load.steps = BeforeDefine
               /\ load.defined = EnvEntries
         /\ (load.pc = "instantiate" /\ load'.pc # load.pc) =>
               /\ load.steps = BeforeInstantiate
               /\ load.defined = EnvEntries
         /\ (load'.pc = "returned" /\ load'.ret # NULL) =>
               /\ Prefix(BeforeInstantiate, load'.steps)
               /\ load'.defined = EnvEntries ]_vars

\* a load under the two-entry registry has returned a Plugin
C15_Witness ==
    /\ Returned /\ load.ret \in handles
    /\ load.steps = AllSteps
    /\ Len(RegistryNames) = 2
    /\ load.defined = <<(<<"env", "proxy_log">>), (<<"env", "proxy_get">>)>>

\* Plugin p was fully constructed and the module, store, context and linker
\* it records are live
Intact(p) ==
    LET r == plugins[p[1]]
    IN /\ Live(p) /\ HasInstance(p)
       /\ Live(r.module) /\ Live(r.store) /\ Live(r.context)
       /\ Live(r.linker)

\* A step of a load that is failing: rollback or the return of NULL
LoadFailStep ==
    /\ load' # load
    /\ \/ load'.pc \in {"free_linker", "free_config", "free_store",
                        "free_module"}
       \/ load'.pc = "returned" /\ load'.ret = NULL

\* C16: a failed load leaves the engine reference and every Plugin loaded
\* before it unchanged and unreleased, and the unload of one Plugin releases
\* only that Plugin's resources and leaves the engine and every other
\* loaded Plugin unchanged.
C16_OtherPluginsUntouched ==
    [][ /\ LoadFailStep =>
            /\ UNCHANGED <<vm_engine, eng_frees, plugins, handles>>
            /\ \A q \in handles : Intact(q) => Intact(q)'
        /\ \A p \in handles :
              (handles' = handles \ {p}) =>
                 /\ UNCHANGED <<vm_engine, eng_frees, plugins>>
                 /\ \A q \in handles \ {p} : Intact(q) => Intact(q)'
      ]_vars

\* C18: with at most one call in flight per Plugin, two interleaved two-int32
\* calls on two different Plugins each deliver to their guest function the
\* two arguments of their own caller, never values written by the other.
C18_InterleavedCallsKeepArguments ==
    \A t \in Threads :
        LET f == call[t]
        IN ( /\ f.pc = "returned" /\ f.invoked /\ f.overlapped
             /\ f.param_type = NGX_WASM_PARAM_I32_I32 )
           => f.received = f.args

\* The call of frame f failed: unrecognised shape tag, engine error or trap
\* during the invocation, or a result that is not a 32-bit integer
CallFailed(f) ==
    \/ f.found /\ f.param_type \notin {NGX_WASM_PARAM_VOID,
                                        NGX_WASM_PARAM_I32_I32}
    \/ Faulted(f)
    \/ f.invoked /\ f.has_result /\ ResultKind(f.name) # "i32"

\* C19: the call returns NGX_ERROR only when it failed, so that for every
\* 32-bit integer the guest returns a successful result-returning call can
\* be told from a failed one by its return value.
C19_ErrorStatusOnlyOnFailure ==
    \A t \in Threads :
        (call[t].pc = "returned" /\ call[t].rc = NGX_ERROR)
            => CallFailed(call[t])

====
